---------------------------- MODULE Spec2Model ----------------------------
(***************************************************************************)
(* A model of src/lib.rs: the override path list PATHS, the lookup cache   *)
(* ENV_CACHE, and the operations add_override_path, get_os, get, get_bool. *)
(*                                                                         *)
(* Byte strings (OsString, String, a line of a file) are sequences of byte *)
(* values 0..255.  An Option<T> is a sequence of length at most one:       *)
(* None is << >> and Some(v) is << v >>.  A HashMap is a function whose    *)
(* DOMAIN is its key set.                                                  *)
(*                                                                         *)
(* The model is of the cfg(unix) build: a key and a value are the bytes of *)
(* the line as they are (lines 144-151).                                   *)
(***************************************************************************)
EXTENDS Integers, Sequences, FiniteSets, TLC

\* ------------------------------------------------------------------ bounds

\* The most lines the override files hold, all files together.
MaxLines == 3

\* The number of caller threads of the concurrent specification.
NumThreads == 2

\* ------------------------------------------------------- program constants

\* b'=' : the separator byte of a KEY=VALUE line.
EQ == 61

\* ----------------------------------------------------------------- inputs

None == << >>
Some(v) == << v >>

\* Variable names the callers look up: "a" and "b".
NameA == << 97 >>
NameB == << 98 >>
Names == { NameA, NameB }

\* Values: "0", "1", "on", and the single byte 0xFF, which is not UTF-8.
Val0 == << 48 >>
Val1 == << 49 >>
ValOn == << 111, 110 >>
ValBad == << 255 >>

\* What the live environment may hold for a name: unset, or "1".
EnvValues == { None, Some(Val1) }

KV(k, v) == k \o << EQ >> \o v

\* The lines an override file is made of: a=0, a= (empty value), b=on,
\* and the line "a", which has no separator.
Lines == { KV(NameA, Val0), KV(NameA, << >>), KV(NameB, ValOn), NameA }

\* File contents: every sequence of at most MaxLines lines.
Contents == UNION { [1..n -> Lines] : n \in 0..MaxLines }

\* The files the process may find: contents for every path, of at most
\* MaxLines lines together.
RECURSIVE TotalLines(_, _)
TotalLines(c, ps) ==
    IF ps = {} THEN 0
    ELSE LET p == CHOOSE q \in ps : TRUE
         IN Len(c[p]) + TotalLines(c, ps \ {p})

\* The override file paths the callers pass.
PathNames == { "p1", "p2" }

\* What a path names on the filesystem: a regular file with its lines, or
\* nothing (the file was deleted; held: the lines it held, which nothing
\* can read any more).  The lines of a file are those file.split(b'\n')
\* yields before the end of the file or before its first I/O error: the
\* break of line 133 ends the scan of the file as the end of the file does.
Missing(ls) == [kind |-> "missing", lines |-> << >>, held |-> ls]
RegularFile(ls) == [kind |-> "file", lines |-> ls, held |-> ls]

Threads == 1..NumThreads

\* ------------------------------------------------------------------ state

VARIABLES
    env,        \* the live process environment: name -> Option<OsString>
    fs,         \* the filesystem: path -> Missing or RegularFile(lines)
    PATHS,      \* the override path list, a sequence of paths
    ENV_CACHE,  \* the cache: a function, key -> Option<OsString>
    last,       \* the last completed call: what was called and what it returned
    pc,         \* per thread: where it is in the call it is making
    arg,        \* per thread: the call it is making and its argument
    holder,     \* per mutex: the thread holding its guard, 0 when free
    poisoned,   \* the mutexes a thread panicked while holding
    stamp       \* history: key of the cache -> Len(PATHS) when it was written

vars == << env, fs, PATHS, ENV_CACHE, last, pc, arg, holder, poisoned,
          stamp >>
world == << env, fs >>
threads == << pc, arg, holder, poisoned >>

\* ------------------------------------------------------- pure operations

Range(s) == { s[i] : i \in 1..Len(s) }

EmptyMap == [k \in {} |-> None]

\* HashMap::insert: the entry for key is set, replacing an existing one.
MapInsert(m, key, val) ==
    [k \in DOMAIN m \cup {key} |-> IF k = key THEN val ELSE m[k]]

\* HashMap::get: Some(entry) when key is a key of the map.
MapGet(m, key) == IF key \in DOMAIN m THEN Some(m[key]) ELSE None

\* Path::is_file
is_file(f, p) == f[p].kind = "file"

\* File::open succeeds on a path that exists.
CanOpen(f, p) == f[p].kind = "file"

\* data.iter().position(|v| *v == b'='): the first index of the separator,
\* 0 when the line has none.
position(data) ==
    IF \E i \in 1..Len(data) : data[i] = EQ
    THEN CHOOSE i \in 1..Len(data) :
            /\ data[i] = EQ
            /\ \A j \in 1..(i - 1) : data[j] # EQ
    ELSE 0

\* &data[..pos] and &data[pos + 1..]
KeyOf(data, pos) == SubSeq(data, 1, pos - 1)
ValueOf(data, pos) == SubSeq(data, pos + 1, Len(data))

\* insert_key_value storing an empty value as Some("").
insert_key_value_KeepEmpty(cache, key, value) ==
    MapInsert(cache, key, Some(value))

\* insert_key_value: an empty value is stored as None.
insert_key_value(cache, key, value) ==
    IF value = << >>
    THEN MapInsert(cache, key, None)
    ELSE MapInsert(cache, key, Some(value))

\* ScanFile with break for continue at line 138: a line without separator
\* ends the scan of its file.
RECURSIVE ScanFile_Break(_, _, _, _)
ScanFile_Break(cache, lines, i, name) ==
    IF i > Len(lines)
    THEN [cache |-> cache, found |-> FALSE]
    ELSE LET data == lines[i]
             pos == position(data)
         IN IF pos = 0
            THEN [cache |-> cache, found |-> FALSE]
            ELSE LET c2 == insert_key_value(cache, KeyOf(data, pos),
                                            ValueOf(data, pos))
                 IN IF MapGet(c2, name) # None
                    THEN [cache |-> c2, found |-> TRUE]
                    ELSE ScanFile_Break(c2, lines, i + 1, name)

\* ScanFile without the read-ahead: only a line whose key is the requested
\* name is inserted.
RECURSIVE ScanFile_NoReadAhead(_, _, _, _)
ScanFile_NoReadAhead(cache, lines, i, name) ==
    IF i > Len(lines)
    THEN [cache |-> cache, found |-> FALSE]
    ELSE LET data == lines[i]
             pos == position(data)
         IN IF pos = 0 \/ KeyOf(data, pos) # name
            THEN ScanFile_NoReadAhead(cache, lines, i + 1, name)
            ELSE [cache |-> insert_key_value(cache, KeyOf(data, pos),
                                             ValueOf(data, pos)),
                  found |-> TRUE]

\* The inner loop of get_os over the lines of one file, from line i on.
\* found: the requested name became a key of the cache (the return at
\* line 153); the lines after that one are not read.
RECURSIVE ScanFile(_, _, _, _)
ScanFile(cache, lines, i, name) ==
    IF i > Len(lines)
    THEN [cache |-> cache, found |-> FALSE]
    ELSE LET data == lines[i]
             pos == position(data)
         IN IF pos = 0
            THEN ScanFile(cache, lines, i + 1, name)
            ELSE LET c2 == insert_key_value(cache, KeyOf(data, pos),
                                            ValueOf(data, pos))
                 IN IF MapGet(c2, name) # None
                    THEN [cache |-> c2, found |-> TRUE]
                    ELSE ScanFile(c2, lines, i + 1, name)

\* ScanPaths with break for continue at line 128: a path that cannot be
\* opened ends the scan.
RECURSIVE ScanPaths_Break(_, _, _, _, _)
ScanPaths_Break(cache, f, paths, j, name) ==
    IF j > Len(paths)
    THEN [cache |-> cache, found |-> FALSE]
    ELSE IF ~CanOpen(f, paths[j])
         THEN [cache |-> cache, found |-> FALSE]
         ELSE LET r == ScanFile(cache, f[paths[j]].lines, 1, name)
              IN IF r.found
                 THEN r
                 ELSE ScanPaths_Break(r.cache, f, paths, j + 1, name)

\* The outer loop of get_os over the path list, from entry j on.  A path
\* that cannot be opened is skipped.
RECURSIVE ScanPaths(_, _, _, _, _)
ScanPaths(cache, f, paths, j, name) ==
    IF j > Len(paths)
    THEN [cache |-> cache, found |-> FALSE]
    ELSE IF ~CanOpen(f, paths[j])
         THEN ScanPaths(cache, f, paths, j + 1, name)
         ELSE LET r == ScanFile(cache, f[paths[j]].lines, 1, name)
              IN IF r.found
                 THEN r
                 ELSE ScanPaths(r.cache, f, paths, j + 1, name)

\* ScanOverrides without the insert of line 159: a name found nowhere is
\* returned as None and not stored.
ScanOverrides_NoStore(cache, f, paths, name) ==
    LET r == ScanPaths(cache, f, paths, 1, name)
    IN IF r.found
       THEN [cache |-> r.cache, ret |-> r.cache[name], from |-> "file"]
       ELSE [cache |-> r.cache, ret |-> None, from |-> "none"]

\* The third block of get_os and its end (lines 122-160), run with both
\* guards held: the scan of the override files, then the None stored for a
\* name found nowhere.  from: the return statement taken.
ScanOverrides(cache, f, paths, name) ==
    LET r == ScanPaths(cache, f, paths, 1, name)
    IN IF r.found
       THEN [cache |-> r.cache, ret |-> r.cache[name], from |-> "file"]
       ELSE [cache |-> MapInsert(r.cache, name, None), ret |-> None,
             from |-> "none"]

\* std::env::var_os, then the insert of line 116.
EnvLookup(cache, e, name) ==
    IF e[name] # None THEN MapInsert(cache, name, e[name]) ELSE cache

\* CacheOrEnv with the two blocks in the other order: the live environment
\* is consulted, and stored, before the cache is.
CacheOrEnv_EnvFirst(cache, e, name) ==
    LET c1 == EnvLookup(cache, e, name)
    IN IF e[name] # None
       THEN [cache |-> c1, ret |-> c1[name], from |-> "env"]
       ELSE IF MapGet(cache, name) # None
       THEN [cache |-> cache, ret |-> cache[name], from |-> "cache"]
       ELSE [cache |-> c1, ret |-> None, from |-> "miss"]

\* The first two blocks of get_os (lines 107-121), run with the cache guard
\* held: the cache, then the live environment.  from is "miss" when neither
\* returns.
CacheOrEnv(cache, e, name) ==
    IF MapGet(cache, name) # None
    THEN [cache |-> cache, ret |-> cache[name], from |-> "cache"]
    ELSE LET c1 == EnvLookup(cache, e, name)
         IN IF MapGet(c1, name) # None
            THEN [cache |-> c1, ret |-> c1[name], from |-> "env"]
            ELSE [cache |-> c1, ret |-> None, from |-> "miss"]

\* get_os, whole: the cache after the call, the value returned, and the
\* return statement taken (from: "cache", "env", "file", "none").
get_os(cache, e, f, paths, name) ==
    LET r == CacheOrEnv(cache, e, name)
    IN IF r.from # "miss" THEN r ELSE ScanOverrides(r.cache, f, paths, name)

\* String::from_utf8, as OsString::into_string uses it: whether the bytes
\* from index i on are well-formed UTF-8.
Cont(b) == b >= 128 /\ b <= 191
RECURSIVE IsUtf8From(_, _)
IsUtf8From(s, i) ==
    IF i > Len(s) THEN TRUE
    ELSE LET b == s[i]
             n == Len(s) - i
         IN IF b < 128 THEN IsUtf8From(s, i + 1)
            ELSE IF b >= 194 /\ b <= 223
            THEN n >= 1 /\ Cont(s[i + 1]) /\ IsUtf8From(s, i + 2)
            ELSE IF b >= 224 /\ b <= 239
            THEN /\ n >= 2
                 /\ Cont(s[i + 1]) /\ Cont(s[i + 2])
                 /\ (b = 224 => s[i + 1] >= 160)
                 /\ (b = 237 => s[i + 1] <= 159)
                 /\ IsUtf8From(s, i + 3)
            ELSE IF b >= 240 /\ b <= 244
            THEN /\ n >= 3
                 /\ Cont(s[i + 1]) /\ Cont(s[i + 2]) /\ Cont(s[i + 3])
                 /\ (b = 240 => s[i + 1] >= 144)
                 /\ (b = 244 => s[i + 1] <= 143)
                 /\ IsUtf8From(s, i + 4)
            ELSE FALSE

\* v.into_string().ok()
into_string_ok(v) == IF IsUtf8From(v, 1) THEN Some(v) ELSE None

\* get converting with to_string_lossy: a value that is no text is returned.
get_text_Lossy(raw) == raw

\* get, after its call of get_os: .and_then(|v| v.into_string().ok())
get_text(raw) == IF raw = None THEN None ELSE into_string_ok(raw[1])

\* The tokens of get_bool.
FalseTokens == { << 111, 102, 102 >>, << 79, 70, 70 >>,
                 << 70, 65, 76, 83, 69 >>, << 102, 97, 108, 115, 101 >>,
                 << 48 >> }
TrueTokens == { << 111, 110 >>, << 79, 78 >>, << 84, 82, 85, 69 >>,
                << 116, 114, 117, 101 >>, << 49 >> }

\* parse_bool knowing the lower-case tokens and the digits only.
parse_bool_LowerOnly(s) ==
    IF s \in { << 111, 102, 102 >>, << 102, 97, 108, 115, 101 >>, << 48 >> }
    THEN Some(FALSE)
    ELSE IF s \in { << 111, 110 >>, << 116, 114, 117, 101 >>, << 49 >> }
    THEN Some(TRUE)
    ELSE None

\* The match of get_bool on the text get returned.
parse_bool(s) ==
    IF s \in FalseTokens THEN Some(FALSE)
    ELSE IF s \in TrueTokens THEN Some(TRUE)
    ELSE None

\* get_bool, after its call of get: the ? and the match.
get_bool_value(text) == IF text = None THEN None ELSE parse_bool(text[1])

\* What a lookup returns from the raw value get_os resolved.
Returned(op, raw) ==
    IF op = "get_os" THEN raw
    ELSE IF op = "get" THEN get_text(raw)
    ELSE get_bool_value(get_text(raw))

\* add_override_path clearing the cache before the search of line 61.
add_override_path_ClearFirst(f, paths, cache, p) ==
    IF ~is_file(f, p)
    THEN [paths |-> paths, cache |-> cache, how |-> "panic"]
    ELSE IF \E i \in 1..Len(paths) : paths[i] = p
    THEN [paths |-> paths, cache |-> EmptyMap, how |-> "present"]
    ELSE [paths |-> Append(paths, p), cache |-> EmptyMap, how |-> "inserted"]

\* add_override_path without the clear of line 66.
add_override_path_NoClear(f, paths, cache, p) ==
    IF ~is_file(f, p)
    THEN [paths |-> paths, cache |-> cache, how |-> "panic"]
    ELSE IF \E i \in 1..Len(paths) : paths[i] = p
    THEN [paths |-> paths, cache |-> cache, how |-> "present"]
    ELSE [paths |-> Append(paths, p), cache |-> cache, how |-> "inserted"]

\* add_override_path without the search of lines 61-63: the path is pushed
\* whether or not the list holds it.
add_override_path_NoSearch(f, paths, cache, p) ==
    IF ~is_file(f, p)
    THEN [paths |-> paths, cache |-> cache, how |-> "panic"]
    ELSE [paths |-> Append(paths, p), cache |-> EmptyMap, how |-> "inserted"]

\* add_override_path, whole: the path list and the cache after the call, and
\* how it ended ("panic", "present", "inserted").
add_override_path(f, paths, cache, p) ==
    IF ~is_file(f, p)
    THEN [paths |-> paths, cache |-> cache, how |-> "panic"]
    ELSE IF \E i \in 1..Len(paths) : paths[i] = p
    THEN [paths |-> paths, cache |-> cache, how |-> "present"]
    ELSE [paths |-> Append(paths, p), cache |-> EmptyMap, how |-> "inserted"]

\* ---------------------------------------------- the calls, one at a time

\* The record of a completed call.  name is << >> for add_override_path and
\* path is "" for a lookup.  how: the way the call ended ("panic",
\* "present", "inserted" for add_override_path; the return statement taken
\* for a lookup).  absent: for an inserting add_override_path, the names the
\* cache held as None when it was cleared.  revalidates: for a lookup, that
\* the call before it was an inserting add_override_path that cleared a
\* None held for the name.
Call(op, name, path, ret, how, absent, revalidates) ==
    [op |-> op, name |-> name, path |-> path, ret |-> ret, how |-> how,
     absent |-> absent, revalidates |-> revalidates]

NoCall == Call("none", << >>, "", None, "", {}, FALSE)

AbsentNames(cache) == { n \in Names : MapGet(cache, n) = Some(None) }

Revalidates(l, name) ==
    l.op = "add_override_path" /\ l.how = "inserted" /\ name \in l.absent

LookupOps == { "get_os", "get", "get_bool" }

\* The history of the cache after a step: an entry the step wrote carries
\* the length of the path list at the step, an entry it left as it was keeps
\* what it carried, and the clear of line 66 leaves none.
Restamp ==
    stamp' = [k \in DOMAIN ENV_CACHE' |->
                IF k \in DOMAIN ENV_CACHE /\ ENV_CACHE'[k] = ENV_CACHE[k]
                THEN stamp[k] ELSE Len(PATHS')]

\* add_override_path(path), run alone from start to end.
AddOverridePath(p) ==
    LET r == add_override_path(fs, PATHS, ENV_CACHE, p)
    IN /\ PATHS' = r.paths
       /\ ENV_CACHE' = r.cache
       /\ last' = Call("add_override_path", << >>, p, None, r.how,
                       IF r.how = "inserted" THEN AbsentNames(ENV_CACHE)
                       ELSE {}, FALSE)
       /\ UNCHANGED << world, threads >>
       /\ Restamp

\* get_os(name), get(name) or get_bool(name), run alone from start to end.
Lookup(op, n) ==
    \E r \in { get_os(ENV_CACHE, env, fs, PATHS, n) } :
       /\ ENV_CACHE' = r.cache
       /\ last' = Call(op, n, "", Returned(op, r.ret), r.from, {},
                       Revalidates(last, n))
       /\ UNCHANGED << world, PATHS, threads >>
       /\ Restamp

GetOs(n) == Lookup("get_os", n)

\* Outside the program: a registered override file is deleted.
DeleteFile(p) ==
    /\ fs[p].kind = "file"
    /\ p \in Range(PATHS)
    /\ fs' = [fs EXCEPT ![p] = Missing(fs[p].lines)]
    /\ last' = Call("delete", << >>, p, None, "", {}, FALSE)
    /\ UNCHANGED << env, PATHS, ENV_CACHE, threads >>
    /\ Restamp

\* The threads before any call: idle, holding nothing.
NoArg == [op |-> "", name |-> << >>, path |-> ""]
Mutexes == { "PATHS", "ENV_CACHE" }
InitThreads ==
    /\ pc = [t \in Threads |-> "idle"]
    /\ arg = [t \in Threads |-> NoArg]
    /\ holder = [m \in Mutexes |-> 0]
    /\ poisoned = {}

\* After construction: both statics are empty.  The environment and the
\* files are whatever the process was started with.
Init ==
    /\ env \in [Names -> EnvValues]
    /\ \E c \in [PathNames -> Contents] :
          /\ TotalLines(c, PathNames) <= MaxLines
          /\ fs = [p \in PathNames |-> RegularFile(c[p])]
    /\ PATHS = << >>
    /\ ENV_CACHE = EmptyMap
    /\ last = NoCall
    /\ InitThreads
    /\ stamp = EmptyMap

Next ==
    \/ \E p \in PathNames : AddOverridePath(p)
    \/ \E n \in Names : GetOs(n)
    \/ \E p \in PathNames : DeleteFile(p)

Spec == Init /\ [][Next]_vars

\* ------------------------------------------ the calls, made concurrently

\* A thread is "idle" between calls.  In add_override_path it is at
\* "add_lock_paths" (before PATHS.lock() of line 60), at "add_lock_cache"
\* (before ENV_CACHE.lock() of line 65, the PATHS guard held) or at
\* "add_clear" (before the clear of line 66, both guards held).  In get_os it
\* is at "get_lock_cache" (before ENV_CACHE.lock() of line 106) or at
\* "get_lock_paths" (before PATHS.lock() of line 124, the ENV_CACHE guard
\* held).  get and get_bool are get_os and a conversion of its result.

\* The mutexes whose guard thread t holds.
Held(t) == { m \in Mutexes : holder[m] = t }

\* The guards of t dropped.
Dropped(t) == [m \in Mutexes |-> IF holder[m] = t THEN 0 ELSE holder[m]]

\* Thread t returns from its call: its guards are dropped.
Return(t, call) ==
    /\ pc' = [pc EXCEPT ![t] = "idle"]
    /\ arg' = [arg EXCEPT ![t] = NoArg]
    /\ holder' = Dropped(t)
    /\ last' = call
    /\ UNCHANGED poisoned

\* Thread t panics out of its call: the unwinding drops its guards and
\* poisons their mutexes.  The thread, or the one that caught the panic,
\* may call again.
Panic(t, op, name, path) ==
    /\ pc' = [pc EXCEPT ![t] = "idle"]
    /\ arg' = [arg EXCEPT ![t] = NoArg]
    /\ holder' = Dropped(t)
    /\ poisoned' = poisoned \cup Held(t)
    /\ last' = Call(op, name, path, None, "panic", {}, FALSE)

\* Thread t moves on inside its call.
Goto(t, where) ==
    /\ pc' = [pc EXCEPT ![t] = where]
    /\ UNCHANGED << arg, last, poisoned >>

\* AddBegin with the check of line 57 made after PATHS.lock(): the panic
\* unwinds with the guard held.
AddBegin_CheckUnderLock(t, p) ==
    /\ pc[t] = "idle"
    /\ holder["PATHS"] = 0
    /\ IF ~is_file(fs, p)
       THEN /\ pc' = [pc EXCEPT ![t] = "idle"]
            /\ arg' = [arg EXCEPT ![t] = NoArg]
            /\ holder' = holder
            /\ poisoned' = poisoned \cup { "PATHS" }
            /\ last' = Call("add_override_path", << >>, p, None, "panic",
                            {}, FALSE)
       ELSE /\ pc' = [pc EXCEPT ![t] = "add_lock_paths"]
            /\ arg' = [arg EXCEPT ![t] = [op |-> "add_override_path",
                                          name |-> << >>, path |-> p]]
            /\ UNCHANGED << holder, last, poisoned >>
    /\ UNCHANGED << world, PATHS, ENV_CACHE >>
    /\ Restamp

\* Lines 56-59: thread t calls add_override_path(p); the path is checked
\* before any lock is taken.
AddBegin(t, p) ==
    /\ pc[t] = "idle"
    /\ IF ~is_file(fs, p)
       THEN Panic(t, "add_override_path", << >>, p)
       ELSE /\ pc' = [pc EXCEPT ![t] = "add_lock_paths"]
            /\ arg' = [arg EXCEPT ![t] = [op |-> "add_override_path",
                                          name |-> << >>, path |-> p]]
            /\ UNCHANGED << holder, last, poisoned >>
    /\ UNCHANGED << world, PATHS, ENV_CACHE >>
    /\ Restamp

\* Lines 60-64: PATHS.lock().unwrap(), the search, the return when the path
\* is present, the push.
AddLockPaths(t) ==
    /\ pc[t] = "add_lock_paths"
    /\ holder["PATHS"] = 0
    /\ IF "PATHS" \in poisoned
       THEN /\ Panic(t, "add_override_path", << >>, arg[t].path)
            /\ UNCHANGED PATHS
       ELSE IF \E i \in 1..Len(PATHS) : PATHS[i] = arg[t].path
       THEN /\ Return(t, Call("add_override_path", << >>, arg[t].path, None,
                              "present", {}, FALSE))
            /\ UNCHANGED PATHS
       ELSE /\ PATHS' = Append(PATHS, arg[t].path)
            /\ holder' = [holder EXCEPT !["PATHS"] = t]
            /\ Goto(t, "add_lock_cache")
    /\ UNCHANGED << world, ENV_CACHE >>
    /\ Restamp

\* Line 65: ENV_CACHE.lock().unwrap() with the PATHS guard of line 60 still
\* held: the guard is a local of the function and is dropped at its end.
AddLockCache(t) ==
    /\ pc[t] = "add_lock_cache"
    /\ holder["ENV_CACHE"] = 0
    /\ IF "ENV_CACHE" \in poisoned
       THEN Panic(t, "add_override_path", << >>, arg[t].path)
       ELSE /\ holder' = [holder EXCEPT !["ENV_CACHE"] = t]
            /\ Goto(t, "add_clear")
    /\ UNCHANGED << world, PATHS, ENV_CACHE >>
    /\ Restamp

\* AddClear without the clear of line 66.
AddClear_NoClear(t) ==
    /\ pc[t] = "add_clear"
    /\ ENV_CACHE' = ENV_CACHE
    /\ Return(t, Call("add_override_path", << >>, arg[t].path, None,
                      "inserted", AbsentNames(ENV_CACHE), FALSE))
    /\ UNCHANGED << world, PATHS >>
    /\ Restamp

\* Lines 66-67: the clear, and the drop of both guards at the end of the
\* function.
AddClear(t) ==
    /\ pc[t] = "add_clear"
    /\ ENV_CACHE' = EmptyMap
    /\ Return(t, Call("add_override_path", << >>, arg[t].path, None,
                      "inserted", AbsentNames(ENV_CACHE), FALSE))
    /\ UNCHANGED << world, PATHS >>
    /\ Restamp

\* Thread t calls get_os(n), get(n) or get_bool(n).
GetBegin(t, op, n) ==
    /\ pc[t] = "idle"
    /\ pc' = [pc EXCEPT ![t] = "get_lock_cache"]
    /\ arg' = [arg EXCEPT ![t] = [op |-> op, name |-> n, path |-> ""]]
    /\ UNCHANGED << world, PATHS, ENV_CACHE, holder, last, poisoned >>
    /\ Restamp

\* Lines 106-121: ENV_CACHE.lock().unwrap(), the cache, the environment.
GetLockCache(t) ==
    /\ pc[t] = "get_lock_cache"
    /\ holder["ENV_CACHE"] = 0
    /\ IF "ENV_CACHE" \in poisoned
       THEN /\ Panic(t, arg[t].op, arg[t].name, "")
            /\ UNCHANGED ENV_CACHE
       ELSE LET r == CacheOrEnv(ENV_CACHE, env, arg[t].name)
            IN /\ ENV_CACHE' = r.cache
               /\ IF r.from # "miss"
                  THEN Return(t, Call(arg[t].op, arg[t].name, "",
                                      Returned(arg[t].op, r.ret), r.from,
                                      {}, Revalidates(last, arg[t].name)))
                  ELSE /\ holder' = [holder EXCEPT !["ENV_CACHE"] = t]
                       /\ Goto(t, "get_lock_paths")
    /\ UNCHANGED << world, PATHS >>
    /\ Restamp

\* Lines 122-161: PATHS.lock().unwrap() with the ENV_CACHE guard still held,
\* the scan, and the drop of both guards at the return.
GetLockPaths(t) ==
    /\ pc[t] = "get_lock_paths"
    /\ holder["PATHS"] = 0
    /\ IF "PATHS" \in poisoned
       THEN /\ Panic(t, arg[t].op, arg[t].name, "")
            /\ UNCHANGED ENV_CACHE
       ELSE LET r == ScanOverrides(ENV_CACHE, fs, PATHS, arg[t].name)
            IN /\ ENV_CACHE' = r.cache
               /\ Return(t, Call(arg[t].op, arg[t].name, "",
                                 Returned(arg[t].op, r.ret), r.from, {},
                                 Revalidates(last, arg[t].name)))
    /\ UNCHANGED << world, PATHS >>
    /\ Restamp

\* The files of the concurrent specification: p1 is an override file holding
\* a=0 and b=on; p2 is not a file.
ConcFiles ==
    ("p1" :> RegularFile(<< KV(NameA, Val0), KV(NameB, ValOn) >>))
    @@ ("p2" :> Missing(<< >>))

InitConc ==
    /\ env \in [Names -> EnvValues]
    /\ fs = ConcFiles
    /\ PATHS = << >>
    /\ ENV_CACHE = EmptyMap
    /\ last = NoCall
    /\ InitThreads
    /\ stamp = EmptyMap

NextConc ==
    \E t \in Threads :
        \/ \E p \in PathNames : AddBegin(t, p)
        \/ AddLockPaths(t)
        \/ AddLockCache(t)
        \/ AddClear(t)
        \/ \E op \in LookupOps : \E n \in Names : GetBegin(t, op, n)
        \/ GetLockCache(t)
        \/ GetLockPaths(t)

SpecConc == InitConc /\ [][NextConc]_vars

\* ------------------------------------ the lookups and their conversions

\* Texts a variable may hold: the tokens of get_bool, "maybe", and U+00E9 in
\* UTF-8.  Byte strings that are no text: 0xFF, and a lead byte 0xC3 with no
\* continuation byte after it.
Maybe == << 109, 97, 121, 98, 101 >>
Texts == FalseTokens \cup TrueTokens \cup { Maybe, << 195, 169 >> }
NonTexts == { ValBad, << 195 >> }
RawValues == Texts \cup NonTexts

\* The environment may set "a"; the override file p1 holds one line for
\* "b", with any raw value or none; p2 is empty.
InitText ==
    /\ \E v \in { None } \cup { Some(x) : x \in RawValues } :
          env = (NameA :> v) @@ (NameB :> None)
    /\ \E v \in { << >> } \cup RawValues :
          fs = ("p1" :> RegularFile(<< KV(NameB, v) >>))
               @@ ("p2" :> RegularFile(<< >>))
    /\ PATHS = << >>
    /\ ENV_CACHE = EmptyMap
    /\ last = NoCall
    /\ InitThreads
    /\ stamp = EmptyMap

NextText ==
    \/ \E p \in PathNames : AddOverridePath(p)
    \/ \E op \in LookupOps : \E n \in Names : Lookup(op, n)

SpecText == InitText /\ [][NextText]_vars

\* ------------------------------------------------------------- the claims

\* The line has a separator and its key is name.
HasKey(line, name) ==
    position(line) # 0 /\ KeyOf(line, position(line)) = name

\* The value of a KEY=VALUE line as get_os returns it: empty means None.
LineValue(line) ==
    IF ValueOf(line, position(line)) = << >> THEN None
    ELSE Some(ValueOf(line, position(line)))

\* The lines of the override files in the order a scan reads them: the
\* registered paths in insertion order, a path that cannot be opened giving
\* no line.
RECURSIVE LinesInOrder(_, _, _)
LinesInOrder(f, paths, j) ==
    IF j > Len(paths) THEN << >>
    ELSE (IF CanOpen(f, paths[j]) THEN f[paths[j]].lines ELSE << >>)
         \o LinesInOrder(f, paths, j + 1)

\* Some registered override file that can be read has a line with key name.
Defined(f, paths, name) ==
    \E i \in 1..Len(LinesInOrder(f, paths, 1)) :
        HasKey(LinesInOrder(f, paths, 1)[i], name)

\* The index, in LinesInOrder, of the first line with key name.
FirstIndex(f, paths, name) ==
    CHOOSE i \in 1..Len(LinesInOrder(f, paths, 1)) :
        /\ HasKey(LinesInOrder(f, paths, 1)[i], name)
        /\ \A k \in 1..(i - 1) : ~HasKey(LinesInOrder(f, paths, 1)[k], name)

\* The value of the first line with key name, in registry order.
FirstValue(f, paths, name) ==
    LineValue(LinesInOrder(f, paths, 1)[FirstIndex(f, paths, name)])

\* C1: precedence.  When get_os(n) has just returned, n is set in the live
\* environment and a registered override file has a line with key n, the
\* value returned is the environment's.
C1_Precedence ==
    (/\ last.op = "get_os"
     /\ env[last.name] # None
     /\ Defined(fs, PATHS, last.name))
    => last.ret = env[last.name]

\* Every registered path still names its file.
AllReadable == \A i \in 1..Len(PATHS) : CanOpen(fs, PATHS[i])

\* C2: fallback order.  When get_os(n) has just returned, n is unset in the
\* live environment, every registered file is still there and one of them
\* has a line with key n, the value returned is that of the first such line
\* of the earliest-registered such file.
C2_FallbackOrder ==
    (/\ last.op = "get_os"
     /\ env[last.name] = None
     /\ AllReadable
     /\ Defined(fs, PATHS, last.name))
    => last.ret = FirstValue(fs, PATHS, last.name)

\* The path the last inserting add_override_path appended, and the paths
\* registered before it.
NewPath == PATHS[Len(PATHS)]
EarlierPaths == SubSeq(PATHS, 1, Len(PATHS) - 1)

\* The non-empty values the lines with key name give in the file at path p.
NonEmptyValues(f, p, name) ==
    { LineValue(f[p].lines[i]) :
        i \in { k \in 1..Len(f[p].lines) :
                  /\ HasKey(f[p].lines[k], name)
                  /\ LineValue(f[p].lines[k]) # None } }

\* C3 as stated: get_os(n) made right after an add_override_path that
\* inserted a path and cleared a None cached for n, the new file defining n
\* with a non-empty value, returns that value.
C3_AsStated ==
    (/\ last.op = "get_os"
     /\ last.revalidates
     /\ NonEmptyValues(fs, NewPath, last.name) # {})
    => last.ret \in NonEmptyValues(fs, NewPath, last.name)

\* C3, amended: an inserting add_override_path leaves the cache empty; and
\* get_os(n) made right after one that cleared a None cached for n returns
\* the value of the first line with key n of the new file when that value is
\* not empty, n is unset in the live environment and no file registered
\* earlier that can be opened has a line with key n.
C3_CacheInvalidation ==
    /\ (last.op = "add_override_path" /\ last.how = "inserted")
       => ENV_CACHE = EmptyMap
    /\ (/\ last.op = "get_os"
        /\ last.revalidates
        /\ env[last.name] = None
        /\ ~Defined(fs, EarlierPaths, last.name)
        /\ Defined(fs, << NewPath >>, last.name)
        /\ FirstValue(fs, << NewPath >>, last.name) # None)
       => /\ last.ret = FirstValue(fs, << NewPath >>, last.name)
          /\ last.ret \in NonEmptyValues(fs, NewPath, last.name)

\* C3's case is reached: a None cached for "a" was cleared by an insertion
\* and the get_os("a") after it returned the new file's "0".
C3_Witness ==
    /\ last.op = "get_os"
    /\ last.revalidates
    /\ last.name = NameA
    /\ last.how = "file"
    /\ last.ret = Some(Val0)
    /\ Len(PATHS) = 2

\* The cache after inserting every KEY=VALUE line of ls, in order.
RECURSIVE InsertAll(_, _, _)
InsertAll(cache, ls, i) ==
    IF i > Len(ls) THEN cache
    ELSE InsertAll(IF position(ls[i]) = 0 THEN cache
                   ELSE MapInsert(cache, KeyOf(ls[i], position(ls[i])),
                                  LineValue(ls[i])),
                   ls, i + 1)

\* C5: empty value means unset.  A get_os(n) that scans the override files
\* (n neither cached nor set in the environment) and whose first line with
\* key n has an empty value returns None, leaves n cached as None, and has
\* inserted the lines up to that one and no line after it.
C5_EmptyMeansUnset ==
    [][(/\ last'.op = "get_os"
        /\ MapGet(ENV_CACHE, last'.name) = None
        /\ env[last'.name] = None
        /\ Defined(fs, PATHS, last'.name)
        /\ FirstValue(fs, PATHS, last'.name) = None)
       => /\ last'.ret = None
          /\ MapGet(ENV_CACHE', last'.name) = Some(None)
          /\ ENV_CACHE' =
               InsertAll(ENV_CACHE,
                         SubSeq(LinesInOrder(fs, PATHS, 1), 1,
                                FirstIndex(fs, PATHS, last'.name)), 1)]_vars

\* C5's case is reached: get_os("a") returned None from the line a= although
\* a later line gives "a" the value "0".
C5_Witness ==
    /\ last.op = "get_os"
    /\ last.name = NameA
    /\ last.how = "file"
    /\ last.ret = None
    /\ MapGet(ENV_CACHE, NameA) = Some(None)
    /\ \E i \in 1..Len(LinesInOrder(fs, PATHS, 1)) :
          /\ i > FirstIndex(fs, PATHS, NameA)
          /\ HasKey(LinesInOrder(fs, PATHS, 1)[i], NameA)
          /\ LineValue(LinesInOrder(fs, PATHS, 1)[i]) = Some(Val0)

\* C6: idempotence.  add_override_path with a path already in the path list
\* changes neither the list nor the cache, so every get_os returns after it
\* what it would have returned before it.
C6_Idempotence ==
    [][(/\ last'.op = "add_override_path"
        /\ last'.path \in Range(PATHS))
       => /\ PATHS' = PATHS
          /\ ENV_CACHE' = ENV_CACHE
          /\ \A n \in Names :
                get_os(ENV_CACHE', env', fs', PATHS', n)
                  = get_os(ENV_CACHE, env, fs, PATHS, n)]_vars

\* C6's case is reached: a second add_override_path of a registered path
\* returned with entries in the cache.
C6_Witness ==
    /\ last.op = "add_override_path"
    /\ last.how = "present"
    /\ last.path \in Range(PATHS)
    /\ ENV_CACHE # EmptyMap

\* Some registered path can no longer be opened.
SomeMissing == \E i \in 1..Len(PATHS) : ~CanOpen(fs, PATHS[i])

\* The values the lines with key name give in the registered files that can
\* be opened.
ReadableValues(f, paths, name) ==
    { LineValue(LinesInOrder(f, paths, 1)[i]) :
        i \in { k \in 1..Len(LinesInOrder(f, paths, 1)) :
                  HasKey(LinesInOrder(f, paths, 1)[k], name) } }

RECURSIVE WellFormed(_)
WellFormed(ls) ==
    IF ls = << >> THEN << >>
    ELSE (IF position(Head(ls)) = 0 THEN << >> ELSE << Head(ls) >>)
         \o WellFormed(Tail(ls))

\* The filesystem with every line that has no separator removed.
StripMalformed(f) ==
    [p \in DOMAIN f |-> [f[p] EXCEPT !.lines = WellFormed(f[p].lines)]]

\* C9: malformed lines.  Every get_os leaves the cache and returns the value
\* it would with the lines that have no separator removed from the files.
C9_MalformedLine ==
    [][last'.op = "get_os"
       => /\ ENV_CACHE' = get_os(ENV_CACHE, env, StripMalformed(fs), PATHS,
                                 last'.name).cache
          /\ last'.ret = get_os(ENV_CACHE, env, StripMalformed(fs), PATHS,
                                last'.name).ret]_vars

\* C9's case is reached: a file holds b=on, a line without separator, then
\* a=0; get_os("a") cached b, passed the malformed line and returned "0".
C9_Witness ==
    /\ last.op = "get_os"
    /\ last.name = NameA
    /\ last.how = "file"
    /\ last.ret = Some(Val0)
    /\ Len(PATHS) = 1
    /\ fs[PATHS[1]].lines = << KV(NameB, ValOn), NameA, KV(NameA, Val0) >>
    /\ ENV_CACHE = (NameA :> Some(Val0)) @@ (NameB :> Some(ValOn))

\* Thread t waits for a guard that thread u holds.
WaitsFor(t, u) ==
    \/ pc[t] \in { "add_lock_paths", "get_lock_paths" } /\ holder["PATHS"] = u
    \/ /\ pc[t] \in { "add_lock_cache", "get_lock_cache" }
       /\ holder["ENV_CACHE"] = u

\* C4: every operation completes.  No two threads wait for each other's
\* guard: no reachable state is a deadlock.
C4_NoDeadlock ==
    ~ \E t \in Threads : \E u \in Threads :
          t # u /\ WaitsFor(t, u) /\ WaitsFor(u, t)

\* C7: add_override_path with a path that is not a file.  The call panics,
\* and the step leaves the path list, the cache, the guards and the
\* poisoning as they were, the caller holding nothing.
C7_NonFilePanics ==
    [][\A t \in Threads : \A p \in PathNames :
          (AddBegin(t, p) /\ ~is_file(fs, p))
          => /\ last'.op = "add_override_path"
             /\ last'.path = p
             /\ last'.how = "panic"
             /\ pc'[t] = "idle"
             /\ UNCHANGED << PATHS, ENV_CACHE, holder, poisoned >>
             /\ Held(t) = {}
             /\ poisoned' = {}]_vars

\* C7's case is reached: add_override_path of a non-file panicked while a
\* path was registered, the cache held an entry and another thread was
\* inside a call; later calls went on.
C7_Witness ==
    /\ last.op = "add_override_path"
    /\ last.how = "panic"
    /\ PATHS # << >>
    /\ ENV_CACHE # EmptyMap
    /\ poisoned = {}
    /\ \E t \in Threads : pc[t] = "add_lock_cache" /\ holder["PATHS"] = t

\* The text of a raw value, for the raw values of this model.
ExpectedText(raw) ==
    IF raw = None THEN None
    ELSE IF raw[1] \in Texts THEN raw
    ELSE None

\* C10: get is get_os, then decoding.  Every get(n) step leaves the cache
\* get_os(n) would leave, with the raw value cached for n; it returns the
\* text when that value is text, and None when it is absent or no text; a
\* get_os(n) after it returns the raw value.
C10_GetDecodes ==
    [][last'.op = "get"
       => LET r == get_os(ENV_CACHE, env, fs, PATHS, last'.name)
          IN /\ ENV_CACHE' = r.cache
             /\ MapGet(ENV_CACHE', last'.name) = Some(r.ret)
             /\ (r.ret # None => r.ret[1] \in RawValues)
             /\ last'.ret = ExpectedText(r.ret)
             /\ get_os(ENV_CACHE', env', fs', PATHS', last'.name).ret
                  = r.ret]_vars

\* C10's case is reached: get("b") returned None for the raw value 0xFF of
\* an override file, and the raw value is cached.
C10_Witness ==
    /\ last.op = "get"
    /\ last.name = NameB
    /\ last.how = "file"
    /\ last.ret = None
    /\ MapGet(ENV_CACHE, NameB) = Some(Some(ValBad))

\* The table of C11, on the raw value resolved for a name: "off", "OFF",
\* "FALSE", "false", "0" give false; "on", "ON", "TRUE", "true", "1" give
\* true; any other value, and absence, give None.
ExpectedBool(raw) ==
    IF raw = None THEN None
    ELSE IF raw[1] \in { << 111, 102, 102 >>, << 79, 70, 70 >>,
                         << 70, 65, 76, 83, 69 >>,
                         << 102, 97, 108, 115, 101 >>, << 48 >> }
    THEN Some(FALSE)
    ELSE IF raw[1] \in { << 111, 110 >>, << 79, 78 >>, << 84, 82, 85, 69 >>,
                         << 116, 114, 117, 101 >>, << 49 >> }
    THEN Some(TRUE)
    ELSE None

\* C11: the boolean parsing table.  When get_bool(n) has just returned, the
\* value resolved for n is cached, and the call returned false exactly for
\* the five false tokens, true exactly for the five true tokens, and None
\* for every other value and for absence.
C11_BoolTable ==
    last.op = "get_bool"
    => /\ MapGet(ENV_CACHE, last.name) # None
       /\ last.ret = ExpectedBool(ENV_CACHE[last.name])

\* C11's case is reached: get_bool("b") returned false for the value "OFF"
\* of an override file.
C11_Witness ==
    /\ last.op = "get_bool"
    /\ last.name = NameB
    /\ last.how = "file"
    /\ ENV_CACHE[NameB] = Some(<< 79, 70, 70 >>)
    /\ last.ret = Some(FALSE)

\* The full resolution of a key against the current sources: the value of
\* the live environment when the key is set there, otherwise the value of
\* the first line with that key in registry order (empty meaning None),
\* otherwise None.
Resolution(e, f, paths, key) ==
    IF key \in DOMAIN e /\ e[key] # None THEN e[key]
    ELSE IF Defined(f, paths, key) THEN FirstValue(f, paths, key)
    ELSE None

\* No file was deleted: the files are those the process started with.
FilesUnchanged == \A p \in PathNames : fs[p].kind = "file"

\* C12: cache coherence.  Between calls, the environment and the files being
\* what they were at the last clear of the cache, every entry of the cache
\* equals the full resolution of its key.
C12_CacheCoherence ==
    FilesUnchanged
    => \A k \in DOMAIN ENV_CACHE :
          ENV_CACHE[k] = Resolution(env, fs, PATHS, k)

\* C13: the lock discipline of add_override_path.  A thread inside
\* add_override_path never holds the guard of PATHS and the guard of
\* ENV_CACHE at once, and has dropped the guard of PATHS when it is about to
\* lock ENV_CACHE.
C13_LockDiscipline ==
    \A t \in Threads :
        pc[t] \in { "add_lock_paths", "add_lock_cache", "add_clear" }
        => /\ Held(t) # Mutexes
           /\ (pc[t] = "add_lock_cache" => holder["PATHS"] # t)

\* C14: read-ahead with short-circuit.  A get_os(n) that misses the cache
\* and the environment and scans the override files leaves the cache as the
\* one before the call with every KEY=VALUE line inserted, in scan order, up
\* to and including the first line with key n, and no line after it; when
\* no line has key n, with every line inserted and n stored as None.
C14_ReadAhead ==
    [][(/\ last'.op = "get_os"
        /\ MapGet(ENV_CACHE, last'.name) = None
        /\ env[last'.name] = None)
       => \A ls \in { LinesInOrder(fs, PATHS, 1) } :
          \A hits \in { { i \in 1..Len(ls) : HasKey(ls[i], last'.name) } } :
             IF hits # {}
             THEN /\ last'.how = "file"
                  /\ ENV_CACHE' =
                       InsertAll(ENV_CACHE,
                                 SubSeq(ls, 1, CHOOSE i \in hits :
                                                  \A k \in hits : i <= k),
                                 1)
             ELSE /\ last'.how = "none"
                  /\ ENV_CACHE' =
                       MapInsert(InsertAll(ENV_CACHE, ls, 1),
                                 last'.name, None)]_vars

\* C14's case is reached: get_os("b") read a=0 and b=on of the lines a=0,
\* b=on, a= and stopped: "a" is cached as "0", the line a= was not read.
C14_Witness ==
    /\ last.op = "get_os"
    /\ last.name = NameB
    /\ last.how = "file"
    /\ LinesInOrder(fs, PATHS, 1)
         = << KV(NameA, Val0), KV(NameB, ValOn), KV(NameA, << >>) >>
    /\ ENV_CACHE = (NameA :> Some(Val0)) @@ (NameB :> Some(ValOn))

\* C15: a cache hit is read-only.  get_os(n) with n a key of the cache
\* returns the stored value and leaves the cache and the path list as they
\* were, whatever the environment and the files hold for n.
C15_CacheHitReadOnly ==
    [][(/\ last'.op = "get_os"
        /\ MapGet(ENV_CACHE, last'.name) # None)
       => /\ last'.how = "cache"
          /\ last'.ret = ENV_CACHE[last'.name]
          /\ UNCHANGED << ENV_CACHE, PATHS >>]_vars

\* C15's case is reached: get_os("a") returned the cached "0" though the
\* only file that defined "a" has been deleted since, so that a scan would
\* find nothing.
C15_Witness ==
    /\ last.op = "get_os"
    /\ last.name = NameA
    /\ last.how = "cache"
    /\ last.ret = Some(Val0)
    /\ env[NameA] = None
    /\ ~Defined(fs, PATHS, NameA)

\* C16: the result is always cached.  When get_os(n) has just returned v,
\* the cache maps n to v: n is a key, also when v is None.
C16_ResultCached ==
    last.op = "get_os"
    => /\ last.name \in DOMAIN ENV_CACHE
       /\ ENV_CACHE[last.name] = last.ret

\* C16's case is reached: get_os("a") found "a" nowhere and stored None for
\* it, while "b" is not a key of the cache.
C16_Witness ==
    /\ last.op = "get_os"
    /\ last.name = NameA
    /\ last.how = "none"
    /\ last.ret = None
    /\ MapGet(ENV_CACHE, NameA) = Some(None)
    /\ MapGet(ENV_CACHE, NameB) = None

\* C17: the path list.  No step leaves two equal paths in PATHS; a step
\* that changes PATHS is an add_override_path that appends its one path,
\* not in the list before, after the entries there, which stay as they
\* were; get_os, get, get_bool and an add_override_path of a path already
\* registered leave PATHS unchanged.
C17_Registry ==
    [][/\ \A i \in 1..Len(PATHS') : \A j \in 1..Len(PATHS') :
             PATHS'[i] = PATHS'[j] => i = j
       /\ PATHS' # PATHS
          => /\ last'.op = "add_override_path"
             /\ last'.how = "inserted"
             /\ last'.path \notin Range(PATHS)
             /\ PATHS' = Append(PATHS, last'.path)
       /\ last'.op \in LookupOps => PATHS' = PATHS
       /\ (last'.op = "add_override_path" /\ last'.how # "inserted")
          => PATHS' = PATHS]_vars

\* C17's case is reached: p2 was registered before p1, lookups were made,
\* and an add_override_path of p2 again found it present and left the list
\* as it was.
C17_Witness ==
    /\ PATHS = << "p2", "p1" >>
    /\ last.op = "add_override_path"
    /\ last.how = "present"
    /\ last.path = "p2"
    /\ ENV_CACHE # EmptyMap

\* C18: stable results.  A get_os for another name leaves every entry of the
\* cache as it was, so that get_os(n) returns after it what it returned
\* before it, the environment, the files and the path list being the same.
C18_StableResults ==
    [][\A n \in Names :
          (/\ last'.op = "get_os"
           /\ last'.name # n
           /\ n \in DOMAIN ENV_CACHE)
          => /\ n \in DOMAIN ENV_CACHE'
             /\ ENV_CACHE'[n] = ENV_CACHE[n]
             /\ get_os(ENV_CACHE', env', fs', PATHS', n).ret
                  = get_os(ENV_CACHE, env, fs, PATHS, n).ret]_vars

\* The number of paths pushed by an add_override_path that has not returned
\* yet: the PATHS guard is held from the push to the return, so there is at
\* most one.
PendingPushes ==
    IF \E t \in Threads : pc[t] \in { "add_lock_cache", "add_clear" }
    THEN 1 ELSE 0

\* C19: no stale entry survives an add_override_path.  Every entry of the
\* cache was written when PATHS held every path whose add_override_path has
\* returned; with no add_override_path between its push and its return,
\* every entry was written against the path list as it is.
C19_NoStaleEntry ==
    \A k \in DOMAIN ENV_CACHE : stamp[k] >= Len(PATHS) - PendingPushes

\* C19's case is reached: a get_os cached None for a name unset in the
\* environment while no path was registered; add_override_path(p1) pushed
\* p1, cleared that entry and has just returned, the other thread being
\* inside a get_os.
C19_Witness ==
    /\ last.op = "add_override_path"
    /\ last.how = "inserted"
    /\ \E n \in last.absent : env[n] = None
    /\ PATHS = << "p1" >>
    /\ PendingPushes = 0
    /\ ENV_CACHE = EmptyMap
    /\ \E t \in Threads : pc[t] = "get_lock_cache"
====
